---- MODULE Spec2Model ----
(***************************************************************************)
(* A model of transactions_analysis.py: the description normaliser, the    *)
(* preprocessor, the trend aggregator, the query filter and the command    *)
(* line entry point.                                                       *)
(*                                                                         *)
(* Text is a sequence of one-character strings.  A missing cell (pandas    *)
(* NaN / None) is the one-element sequence NaN.  Amounts are integers in   *)
(* thousandths of a currency unit (tenths of a cent); timestamps are       *)
(* integers in hours.                                                      *)
(***************************************************************************)
EXTENDS Integers, Sequences, FiniteSets, TLC

VARIABLES argv, description_mapping, csv, pc, transactions, filtered,
          amount_sum, trends, out, error, call, ret

vars == <<argv, description_mapping, csv, pc, transactions, filtered,
          amount_sum, trends, out, error, call, ret>>

(***************************************************************************)
(* Bounds of the model.                                                    *)
(***************************************************************************)
MaxLen == 3

MaxRows == 2

MaxTrendRows == 3

MaxMinOccurrences == 2

(***************************************************************************)
(* Text: str.strip, str.lower, and the ordering of str.                    *)
(***************************************************************************)
NaN == <<"NaN">>

isnull(x) == x = NaN

LowerOf(c) ==
  CASE c = "A" -> "a"
    [] c = "B" -> "b"
    [] c = "C" -> "c"
    [] OTHER -> c

lower(s) == [i \in 1..Len(s) |-> LowerOf(s[i])]

IsSpace(c) == c = " "

RECURSIVE lstrip(_)
lstrip(s) ==
  IF s # <<>> /\ IsSpace(Head(s)) THEN lstrip(Tail(s)) ELSE s

RECURSIVE rstrip(_)
rstrip(s) ==
  IF s # <<>> /\ IsSpace(s[Len(s)]) THEN rstrip(SubSeq(s, 1, Len(s) - 1)) ELSE s

strip(s) == rstrip(lstrip(s))

\* ord(c) for the characters of the model's alphabet (ASCII).
Ord(c) ==
  CASE c = " " -> 32
    [] c = "." -> 46
    [] c = "A" -> 65
    [] c = "B" -> 66
    [] c = "C" -> 67
    [] c = "a" -> 97
    [] c = "b" -> 98
    [] c = "c" -> 99
    [] OTHER -> 127

\* a < b for str: the first differing character decides, a proper prefix
\* is smaller.
RECURSIVE StrLess(_, _)
StrLess(a, b) ==
  IF b = <<>> THEN FALSE
  ELSE IF a = <<>> THEN TRUE
  ELSE IF Ord(Head(a)) # Ord(Head(b)) THEN Ord(Head(a)) < Ord(Head(b))
  ELSE StrLess(Tail(a), Tail(b))

(***************************************************************************)
(* standardize_description, over the module-level description_mapping.     *)
(***************************************************************************)
\* dict.get(key, default)
DictGet(d, key, default) == IF key \in DOMAIN d THEN d[key] ELSE default

\* Variant: the whitespace is not trimmed.
StandardizeWithoutStrip(mapping, description, use_mapping) ==
  IF use_mapping
    THEN DictGet(mapping, lower(description), lower(description))
    ELSE lower(description)

\* lines 32-35
standardize_description(mapping, description, use_mapping) ==
  IF use_mapping
    THEN DictGet(mapping, lower(strip(description)), lower(strip(description)))
    ELSE lower(strip(description))

(***************************************************************************)
(* Cell conversions of preprocess_transactions.                            *)
(***************************************************************************)
\* Series.replace(r'[\$,]', '', regex=True) on one cell: every '$' and ','
\* is removed from a text cell; a missing cell stays missing.
RECURSIVE RemoveCurrency(_)
RemoveCurrency(s) ==
  IF s = <<>> THEN <<>>
  ELSE IF Head(s) \in {"$", ","} THEN RemoveCurrency(Tail(s))
  ELSE <<Head(s)>> \o RemoveCurrency(Tail(s))

ReplaceCurrency(cell) == IF isnull(cell) THEN cell ELSE RemoveCurrency(cell)

Digits == {"0", "1", "2", "3", "4", "5", "6", "7", "8", "9"}

DigitValue(c) ==
  CASE c = "0" -> 0 [] c = "1" -> 1 [] c = "2" -> 2 [] c = "3" -> 3
    [] c = "4" -> 4 [] c = "5" -> 5 [] c = "6" -> 6 [] c = "7" -> 7
    [] c = "8" -> 8 [] c = "9" -> 9

RECURSIVE DigitsValue(_)
DigitsValue(s) ==
  IF s = <<>> THEN 0
  ELSE 10 * DigitsValue(SubSeq(s, 1, Len(s) - 1)) + DigitValue(s[Len(s)])

\* float(text) for a decimal literal [sign] digits [. digits], in
\* thousandths (the model's texts carry at most three decimals).  Any other
\* text raises ValueError: ok is FALSE.
ParseFloat(s) ==
  LET signed == s # <<>> /\ Head(s) \in {"-", "+"}
      body   == IF signed THEN Tail(s) ELSE s
      dots   == {i \in 1..Len(body) : body[i] = "."}
      dot    == IF dots = {} THEN Len(body) + 1 ELSE CHOOSE i \in dots : TRUE
      ip     == SubSeq(body, 1, dot - 1)
      fp     == SubSeq(body, dot + 1, Len(body))
      wellformed ==
        /\ Cardinality(dots) <= 1
        /\ \A i \in 1..Len(ip) : ip[i] \in Digits
        /\ \A i \in 1..Len(fp) : fp[i] \in Digits
        /\ Len(ip) + Len(fp) >= 1
        /\ Len(fp) <= 3
      padded == fp \o SubSeq(<<"0", "0", "0">>, 1, 3 - Len(fp))
      mag    == 1000 * DigitsValue(ip) + DigitsValue(padded)
  IN IF wellformed
       THEN [ok |-> TRUE, value |-> IF signed /\ Head(s) = "-" THEN 0 - mag ELSE mag]
       ELSE [ok |-> FALSE, value |-> 0]

\* A float cell: NaN, or a number.
FloatNaN == [isnull |-> TRUE, value |-> 0]

Float(v) == [isnull |-> FALSE, value |-> v]

\* astype(float) on one cell of the cleaned Amount column.
AsFloat(cell) ==
  IF isnull(cell) THEN [ok |-> TRUE, cell |-> FloatNaN]
  ELSE LET r == ParseFloat(cell)
       IN [ok |-> r.ok, cell |-> Float(r.value)]

\* pd.to_datetime on one Date cell: hours since 2024-01-01 00:00 for a
\* date text (a date without a time is midnight), NaT for a missing cell;
\* any other text raises.
NaT == [isnull |-> TRUE, value |-> 0]

Timestamp(h) == [isnull |-> FALSE, value |-> h]

ToDatetime(cell) ==
  CASE cell = "NaN"        -> [ok |-> TRUE, cell |-> NaT]
    [] cell = "2024-01-09" -> [ok |-> TRUE, cell |-> Timestamp(8 * 24)]
    [] cell = "2024-01-10" -> [ok |-> TRUE, cell |-> Timestamp(9 * 24)]
    [] cell = "2024-01-11" -> [ok |-> TRUE, cell |-> Timestamp(10 * 24)]
    [] OTHER               -> [ok |-> FALSE, cell |-> NaT]

\* datetime.now(): 2024-01-10 12:00, in hours since 2024-01-01 00:00.
Now == 228

HoursPerDay == 24

(***************************************************************************)
(* DataFrames: [columns, rows], a row being a record over the columns.     *)
(***************************************************************************)
SetCell(row, col, v) == [row EXCEPT ![col] = v]

DropColumn(df, col) ==
  [columns |-> df.columns \ {col},
   rows    |-> [i \in 1..Len(df.rows) |->
                  [c \in (DOMAIN df.rows[i]) \ {col} |-> df.rows[i][c]]]]

\* df[col] = cells
AssignColumn(df, col, cells) ==
  [df EXCEPT !.rows = [i \in 1..Len(df.rows) |->
                         SetCell(df.rows[i], col, cells[i])]]

\* df[mask]: the rows whose entry of the boolean mask is True, in order.
RECURSIVE TakeRows(_, _)
TakeRows(rows, mask) ==
  IF rows = <<>> THEN <<>>
  ELSE (IF Head(mask) THEN <<Head(rows)>> ELSE <<>>)
       \o TakeRows(Tail(rows), Tail(mask))

FilterRows(df, mask) == [df EXCEPT !.rows = TakeRows(df.rows, mask)]

NoError == "None"

(***************************************************************************)
(* preprocess_transactions                                                 *)
(***************************************************************************)
\* lines 63-64
DropBalance(df) ==
  IF "Balance" \in df.columns THEN DropColumn(df, "Balance") ELSE df

\* Variant: unparseable amounts are coerced instead of raising.
AmountsCoerced(df) == TRUE

\* line 67: every row is cleaned and converted, before any filtering.
AmountsConvertible(df) ==
  \A i \in 1..Len(df.rows) : AsFloat(ReplaceCurrency(df.rows[i].Amount)).ok

ConvertAmounts(df) ==
  AssignColumn(df, "Amount",
               [i \in 1..Len(df.rows) |->
                  AsFloat(ReplaceCurrency(df.rows[i].Amount)).cell])

\* line 70: NaN < 0 is False.
IsDebit(row) == ~row.Amount.isnull /\ row.Amount.value < 0

FilterDebits(df) ==
  FilterRows(df, [i \in 1..Len(df.rows) |-> IsDebit(df.rows[i])])

\* line 73: only the rows line 70 kept are parsed.
DatesConvertible(df) ==
  \A i \in 1..Len(df.rows) : ToDatetime(df.rows[i].Date).ok

ConvertDates(df) ==
  AssignColumn(df, "Date",
               [i \in 1..Len(df.rows) |-> ToDatetime(df.rows[i].Date).cell])

\* lines 76-77: NaT >= cutoff is False; there is no upper limit.
CutoffDate(days) == Now - days * HoursPerDay

\* Variant: the comparison is inverted.
FilterWindowInverted(df, days) ==
  LET Keep(row) == ~row.Date.isnull /\ row.Date.value <= CutoffDate(days)
  IN FilterRows(df, [i \in 1..Len(df.rows) |-> Keep(df.rows[i])])

\* lines 76-77: NaT >= cutoff is False; there is no upper limit.
FilterWindow(df, days) ==
  LET Keep(row) == ~row.Date.isnull /\ row.Date.value >= CutoffDate(days)
  IN FilterRows(df, [i \in 1..Len(df.rows) |-> Keep(df.rows[i])])

\* line 80: a missing Description is a float, which has no strip().
DescriptionsAreText(df) ==
  \A i \in 1..Len(df.rows) : ~isnull(df.rows[i].Description)

StandardizeDescriptions(df, mapping, use_mapping) ==
  AssignColumn(df, "Description",
               [i \in 1..Len(df.rows) |->
                  standardize_description(mapping, df.rows[i].Description,
                                          use_mapping)])

\* The whole function: the error it raises (NoError when it returns) and
\* the table it returns.
preprocess_transactions(df, days, use_mapping, mapping) ==
  LET t1 == DropBalance(df)
      t2 == ConvertAmounts(t1)
      t3 == FilterDebits(t2)
      t4 == ConvertDates(t3)
      t5 == FilterWindow(t4, days)
      t6 == StandardizeDescriptions(t5, mapping, use_mapping)
  IN IF ~AmountsConvertible(t1) THEN [error |-> "ValueError", table |-> t1]
     ELSE IF ~DatesConvertible(t3) THEN [error |-> "DateParseError", table |-> t3]
     ELSE IF ~DescriptionsAreText(t5) THEN [error |-> "AttributeError", table |-> t5]
     ELSE [error |-> NoError, table |-> t6]

(***************************************************************************)
(* show_trends                                                             *)
(***************************************************************************)
RECURSIVE SumAmounts(_)
SumAmounts(rows) ==
  IF rows = <<>> THEN 0
  ELSE (IF Head(rows).Amount.isnull THEN 0 ELSE Head(rows).Amount.value)
       + SumAmounts(Tail(rows))

\* 'count': the cells of the column that are not NaN.
CountAmounts(rows) ==
  Cardinality({i \in 1..Len(rows) : ~rows[i].Amount.isnull})

\* groupby('Description'): rows with a missing key belong to no group.
GroupKeys(df) ==
  {df.rows[i].Description : i \in 1..Len(df.rows)} \ {NaN}

GroupRows(df, key) ==
  LET InGroup(row) == row.Description = key
  IN SelectSeq(df.rows, InGroup)

\* Variant: the threshold is exclusive.
FilterRecurringStrict(df, min_occurrences) ==
  LET Keep(row) == /\ ~isnull(row.Description)
                   /\ Len(GroupRows(df, row.Description)) > min_occurrences
  IN FilterRows(df, [i \in 1..Len(df.rows) |-> Keep(df.rows[i])])

\* line 96: groupby(...).filter(lambda x: len(x) >= min_occurrences)
FilterRecurring(df, min_occurrences) ==
  LET Keep(row) == /\ ~isnull(row.Description)
                   /\ Len(GroupRows(df, row.Description)) >= min_occurrences
  IN FilterRows(df, [i \in 1..Len(df.rows) |-> Keep(df.rows[i])])

\* groupby sorts the group keys (sort=True): ascending str order.
RECURSIVE SortedKeys(_)
SortedKeys(keys) ==
  IF keys = {} THEN <<>>
  ELSE LET least == CHOOSE k \in keys : \A j \in keys \ {k} : StrLess(k, j)
       IN <<least>> \o SortedKeys(keys \ {least})

\* Variant: round(p / q) for q > 0, a tie going away from zero.
RoundHalfAwayFromZero(p, q) ==
  LET a == IF p < 0 THEN 0 - p ELSE p
      m == (2 * a + q) \div (2 * q)
  IN IF p < 0 THEN 0 - m ELSE m

\* round(p / q) for q > 0, a tie going to the even neighbour (numpy.round).
RoundHalfEven(p, q) ==
  LET f == p \div q
      r == p % q
  IN IF 2 * r < q THEN f
     ELSE IF 2 * r > q THEN f + 1
     ELSE IF f % 2 = 0 THEN f ELSE f + 1

\* lines 99-107: one row per group; the mean of the group rounded to 2
\* decimals (10 thousandths make a hundredth).
TrendRow(df, key) ==
  LET g == GroupRows(df, key)
  IN [Description       |-> key,
      Amount_sum        |-> SumAmounts(g),
      Amount_mean       |-> 10 * RoundHalfEven(SumAmounts(g), 10 * CountAmounts(g)),
      Transaction_count |-> CountAmounts(g)]

Aggregate(df) ==
  LET keys == SortedKeys(GroupKeys(df))
  IN [i \in 1..Len(keys) |-> TrendRow(df, keys[i])]

Orderings(s) ==
  {[i \in 1..Len(s) |-> s[f[i]]] :
     f \in {g \in [1..Len(s) -> 1..Len(s)] :
              \A i, j \in 1..Len(s) : i # j => g[i] # g[j]}}

\* line 110: sort_values(by='Transaction_count', ascending=False) with the
\* default kind ('quicksort'), which is not stable: every ordering of the
\* rows that is descending in Transaction_count is a possible result.
\* Variant: ascending=True.
SortValuesAscending(rows) ==
  {p \in Orderings(rows) :
     \A i \in 1..(Len(p) - 1) : p[i].Transaction_count <= p[i + 1].Transaction_count}

\* line 110, as written.
SortValues(rows) ==
  {p \in Orderings(rows) :
     \A i \in 1..(Len(p) - 1) : p[i].Transaction_count >= p[i + 1].Transaction_count}

\* The tables show_trends may return.
show_trends(df, min_occurrences) ==
  SortValues(Aggregate(FilterRecurring(df, min_occurrences)))

DefaultMinOccurrences == 2

(***************************************************************************)
(* The query filter of main: re.escape, and Series.str.contains with       *)
(* case=False, na=False (a regular-expression search, ignoring case).      *)
(***************************************************************************)
RegexSpecial == {".", " ", "$", "-", "\\"}

RECURSIVE re_escape(_)
\* Variant: the query is used as a pattern, unescaped.
NoEscape(s) == s

re_escape(s) ==
  IF s = <<>> THEN <<>>
  ELSE (IF Head(s) \in RegexSpecial THEN <<"\\", Head(s)>> ELSE <<Head(s)>>)
       \o re_escape(Tail(s))

\* The pattern as a sequence of atoms: an escaped character is a literal,
\* an unescaped '.' matches any character.
RECURSIVE RegexAtoms(_)
RegexAtoms(p) ==
  IF p = <<>> THEN <<>>
  ELSE IF Head(p) = "\\" /\ Len(p) >= 2
    THEN <<[any |-> FALSE, char |-> p[2]]>> \o RegexAtoms(SubSeq(p, 3, Len(p)))
  ELSE IF Head(p) = "."
    THEN <<[any |-> TRUE, char |-> "."]>> \o RegexAtoms(Tail(p))
  ELSE <<[any |-> FALSE, char |-> Head(p)]>> \o RegexAtoms(Tail(p))

AtomMatches(atom, c) == atom.any \/ LowerOf(atom.char) = LowerOf(c)

RegexSearchIgnoreCase(p, s) ==
  LET atoms == RegexAtoms(p)
  IN \E i \in 1..(Len(s) + 1) :
       /\ i + Len(atoms) - 1 <= Len(s)
       /\ \A j \in 1..Len(atoms) : AtomMatches(atoms[j], s[i + j - 1])

str_contains(cell, pat) ==
  IF isnull(cell) THEN FALSE ELSE RegexSearchIgnoreCase(pat, cell)

None == <<"None">>

\* Variant: "if query is not None".
IsNotNone(query) == query # None

\* line 173, "if query:": None and '' are false.
Truthy(query) == query # None /\ query # <<>>

\* lines 175-177
FilterByQuery(df, query) ==
  LET escaped_query == re_escape(lower(strip(query)))
  IN FilterRows(df, [i \in 1..Len(df.rows) |->
                       str_contains(df.rows[i].Description, escaped_query)])

(***************************************************************************)
(* Inputs: command lines, mapping files and transaction files.             *)
(***************************************************************************)
\* The options main declares (lines 145-149); --days and --query carry a
\* value and are the fields days and query of a command line.
DeclaredFlags == {"--show-visualization", "--raw", "--install-completion"}

Flags == DeclaredFlags \cup {"--export"}

DaysChoices == {0, 1}

QueryChoices == {None, <<>>, <<" ">>, <<" ", "A", ".", "b">>}

CommandLines ==
  [flags : SUBSET Flags, days : DaysChoices, query : QueryChoices]

\* description_mapping.json
DescriptionMaps ==
  { (<<"a", ".", "b">> :> <<"A", ".", "B">>),
    (<<"a", "c", "b">> :> NaN) @@ (<<"b">> :> <<"a", ".", "b">>) }

CsvRows ==
  { [Date |-> "2024-01-11", Description |-> <<"a", ".", "b">>,
     Amount |-> <<"-", "$", "0", ".", "0", "2">>],
    [Date |-> "2024-01-11", Description |-> <<" ", "A", ".", "b", " ">>,
     Amount |-> <<"-", "0", ".", "0", "3">>],
    [Date |-> "2024-01-10", Description |-> <<"a", "c", "b">>,
     Amount |-> <<"-", "0", ".", "0", "3">>],
    [Date |-> "2024-01-09", Description |-> <<"a", ".", "b">>,
     Amount |-> <<"-", "$", "0", ".", "0", "2">>],
    [Date |-> "not-a-date", Description |-> <<"a", "c", "b">>,
     Amount |-> <<"$", "1", ",", "2", "3", "4", ".", "5", "6">>],
    [Date |-> "not-a-date", Description |-> <<"a", ".", "b">>,
     Amount |-> <<"-", "0", ".", "0", "3">>],
    [Date |-> "2024-01-11", Description |-> <<"a", "c", "b">>,
     Amount |-> <<"-", "x">>],
    [Date |-> "2024-01-11", Description |-> NaN,
     Amount |-> <<"-", "0", ".", "0", "3">>],
    [Date |-> "NaN", Description |-> <<"a", ".", "b">>, Amount |-> NaN] }

WithBalance(row) ==
  [c \in (DOMAIN row) \cup {"Balance"} |->
     IF c = "Balance" THEN <<"$", "1", "0">> ELSE row[c]]

SeqsUpTo(S, n) == UNION {[1..k -> S] : k \in 0..n}

\* pd.read_csv of a file with the columns Date, Description, Amount and,
\* optionally, Balance.
CsvFiles ==
  {[columns |-> {"Date", "Description", "Amount"}, rows |-> r] :
     r \in SeqsUpTo(CsvRows, MaxRows)}
  \cup
  {[columns |-> {"Date", "Description", "Amount", "Balance"},
    rows |-> [i \in 1..Len(r) |-> WithBalance(r[i])]] :
     r \in SeqsUpTo(CsvRows, MaxRows)}

EmptyFrame == [columns |-> {}, rows |-> <<>>]

NoCall == [fn |-> "None"]

(***************************************************************************)
(* The run of the command.                                                 *)
(***************************************************************************)
Init ==
  /\ argv \in CommandLines
  /\ description_mapping \in DescriptionMaps
  /\ csv \in CsvFiles
  /\ pc = "cli"
  /\ transactions = EmptyFrame
  /\ filtered = EmptyFrame
  /\ amount_sum = 0
  /\ trends = <<>>
  /\ out = <<>>
  /\ error = NoError
  /\ call = NoCall
  /\ ret = <<>>

\* click: an option the command does not declare is a usage error, raised
\* before main is called.
\* Variant: unknown options are ignored.
AcceptsAnyOption(a) == TRUE

OptionsDeclared(a) == a.flags \subseteq DeclaredFlags

ClickCommand ==
  /\ pc = "cli"
  /\ IF OptionsDeclared(argv)
       THEN pc' = "main" /\ error' = error
       ELSE pc' = "exit" /\ error' = "UsageError"
  /\ UNCHANGED <<argv, description_mapping, csv, transactions, filtered,
                 amount_sum, trends, out, call, ret>>

\* lines 162-165
InstallCompletion ==
  /\ pc = "main"
  /\ "--install-completion" \in argv.flags
  /\ out' = Append(out, "Completion installed")
  /\ pc' = "exit"
  /\ UNCHANGED <<argv, description_mapping, csv, transactions, filtered,
                 amount_sum, trends, error, call, ret>>

\* line 168
LoadTransactions ==
  /\ pc = "main"
  /\ "--install-completion" \notin argv.flags
  /\ transactions' = csv
  /\ pc' = "preprocess"
  /\ UNCHANGED <<argv, description_mapping, csv, filtered, amount_sum, trends,
                 out, error, call, ret>>

\* line 171
PreprocessTransactions ==
  /\ pc = "preprocess"
  /\ LET r == preprocess_transactions(transactions, argv.days,
                                      "--raw" \notin argv.flags,
                                      description_mapping)
     IN IF r.error = NoError
          THEN transactions' = r.table /\ pc' = "report" /\ error' = error
          ELSE transactions' = transactions /\ pc' = "exit" /\ error' = r.error
  /\ UNCHANGED <<argv, description_mapping, csv, filtered, amount_sum, trends,
                 out, call, ret>>

\* lines 173-182
QueryReport ==
  /\ pc = "report"
  /\ Truthy(argv.query)
  /\ filtered' = FilterByQuery(transactions, argv.query)
  /\ amount_sum' = SumAmounts(filtered'.rows)
  /\ out' = out \o <<"filtered transactions", "Total Amount">>
  /\ pc' = "exit"
  /\ UNCHANGED <<argv, description_mapping, csv, transactions, trends, error,
                 call, ret>>

\* lines 184-195
TrendReport ==
  /\ pc = "report"
  /\ ~Truthy(argv.query)
  /\ trends' \in show_trends(transactions, DefaultMinOccurrences)
  /\ out' = Append(out, "trends")
  /\ pc' = IF "--show-visualization" \in argv.flags THEN "plot_total" ELSE "exit"
  /\ UNCHANGED <<argv, description_mapping, csv, transactions, filtered,
                 amount_sum, error, call, ret>>

\* lines 122-129: the first plt.show()
PlotTotalAmount ==
  /\ pc = "plot_total"
  /\ out' = Append(out, "bar chart")
  /\ pc' = "plot_heatmap"
  /\ UNCHANGED <<argv, description_mapping, csv, transactions, filtered,
                 amount_sum, trends, error, call, ret>>

\* lines 132-141: the second plt.show()
PlotHeatmap ==
  /\ pc = "plot_heatmap"
  /\ out' = Append(out, "heatmap")
  /\ pc' = "exit"
  /\ UNCHANGED <<argv, description_mapping, csv, transactions, filtered,
                 amount_sum, trends, error, call, ret>>

Next ==
  \/ ClickCommand
  \/ InstallCompletion
  \/ LoadTransactions
  \/ PreprocessTransactions
  \/ QueryReport
  \/ TrendReport
  \/ PlotTotalAmount
  \/ PlotHeatmap

Spec == Init /\ [][Next]_vars

(***************************************************************************)
(* The functions called on their own: standardize_description on every     *)
(* short text, show_trends on every small preprocessed table.              *)
(***************************************************************************)
Alphabet == {"a", "b", "A", "B", ".", " "}

StandardizeCalls ==
  [fn : {"standardize_description"},
   description : SeqsUpTo(Alphabet, MaxLen),
   use_mapping : BOOLEAN]

TrendDescriptions == {<<"b">>, <<"a", ".", "b">>, NaN}

TrendAmounts == {0 - 10, 0 - 20, 0 - 30}

\* Rows as preprocess_transactions leaves them: a debit inside the window.
PreprocessedRows ==
  [Date : {Timestamp(10 * 24)},
   Description : TrendDescriptions,
   Amount : {Float(v) : v \in TrendAmounts}]

TrendCalls ==
  [fn : {"show_trends"},
   transactions : {[columns |-> {"Date", "Description", "Amount"}, rows |-> r] :
                     r \in SeqsUpTo(PreprocessedRows, MaxTrendRows)},
   min_occurrences : 0..MaxMinOccurrences]

FnInit ==
  /\ \/ call \in StandardizeCalls /\ description_mapping \in DescriptionMaps
     \/ call \in TrendCalls /\ description_mapping = <<>>
  /\ pc = "call"
  /\ ret = <<>>
  /\ argv = [flags |-> {}, days |-> 0, query |-> None]
  /\ csv = EmptyFrame
  /\ transactions = EmptyFrame
  /\ filtered = EmptyFrame
  /\ amount_sum = 0
  /\ trends = <<>>
  /\ out = <<>>
  /\ error = NoError

CallStandardizeDescription ==
  /\ pc = "call"
  /\ call.fn = "standardize_description"
  /\ ret' = standardize_description(description_mapping, call.description,
                                    call.use_mapping)
  /\ pc' = "returned"
  /\ UNCHANGED <<argv, description_mapping, csv, transactions, filtered,
                 amount_sum, trends, out, error, call>>

CallShowTrends ==
  /\ pc = "call"
  /\ call.fn = "show_trends"
  /\ ret' \in show_trends(call.transactions, call.min_occurrences)
  /\ pc' = "returned"
  /\ UNCHANGED <<argv, description_mapping, csv, transactions, filtered,
                 amount_sum, trends, out, error, call>>

FnNext ==
  \/ CallStandardizeDescription
  \/ CallShowTrends

FnSpec == FnInit /\ [][FnNext]_vars

(***************************************************************************)
(* Properties.                                                             *)
(***************************************************************************)
Range(q) == {q[i] : i \in 1..Len(q)}

Installing == "--install-completion" \in argv.flags

\* C1: every row of the table preprocess_transactions returns has
\* Amount < 0 and Date >= now - days, and the table has no Balance column.
C1_PreprocessedRows ==
  pc = "report" =>
    /\ "Balance" \notin transactions.columns
    /\ \A i \in 1..Len(transactions.rows) :
         LET row == transactions.rows[i]
         IN /\ "Balance" \notin DOMAIN row
            /\ ~row.Amount.isnull /\ row.Amount.value < 0
            /\ ~row.Date.isnull
            /\ row.Date.value >= Now - argv.days * HoursPerDay

C1_Witness ==
  /\ pc = "report"
  /\ "Balance" \in csv.columns
  /\ transactions.rows # <<>>
  /\ Len(transactions.rows) < Len(csv.rows)

\* C2: standardize_description(d, True) is the mapped value when
\* trim(lower(d)) is a key of the mapping and trim(lower(d)) otherwise;
\* standardize_description(d, False) is trim(lower(d)) whatever the mapping.
C2_Standardize ==
  (pc = "returned" /\ call.fn = "standardize_description") =>
    LET key == strip(lower(call.description))
    IN ret = IF call.use_mapping /\ key \in DOMAIN description_mapping
               THEN description_mapping[key]
               ELSE key

C2_Witness ==
  /\ pc = "returned"
  /\ call.fn = "standardize_description"
  /\ call.use_mapping
  /\ strip(lower(call.description)) \in DOMAIN description_mapping
  /\ strip(lower(call.description)) # call.description
  /\ ret = description_mapping[strip(lower(call.description))]

GroupSize(df, key) ==
  Cardinality({i \in 1..Len(df.rows) : df.rows[i].Description = key})

Descriptions(df) == {df.rows[i].Description : i \in 1..Len(df.rows)} \ {NaN}

RECURSIVE SumCounts(_)
SumCounts(rows) ==
  IF rows = <<>> THEN 0
  ELSE Head(rows).Transaction_count + SumCounts(Tail(rows))

\* C3: show_trends returns exactly one row per description whose group has
\* at least min_occurrences rows, and none for any other; each
\* Transaction_count is the group's row count, so it is >= min_occurrences,
\* and the counts add up to the number of rows in the qualifying groups.
C3_TrendRows ==
  (pc = "returned" /\ call.fn = "show_trends") =>
    LET df == call.transactions
        m  == call.min_occurrences
        qualifying == {k \in Descriptions(df) : GroupSize(df, k) >= m}
    IN /\ {ret[i].Description : i \in 1..Len(ret)} = qualifying
       /\ Len(ret) = Cardinality(qualifying)
       /\ \A i \in 1..Len(ret) :
            /\ ret[i].Transaction_count = GroupSize(df, ret[i].Description)
            /\ ret[i].Transaction_count >= m
       /\ SumCounts(ret) =
            Cardinality({i \in 1..Len(df.rows) :
                           df.rows[i].Description \in qualifying})
       /\ (qualifying = {} => ret = <<>>)

C3_Witness ==
  /\ pc = "returned"
  /\ call.fn = "show_trends"
  /\ ret # <<>>
  /\ \E k \in Descriptions(call.transactions) :
       GroupSize(call.transactions, k) < call.min_occurrences

FirstSeen(df, key) ==
  CHOOSE i \in 1..Len(df.rows) :
    /\ df.rows[i].Description = key
    /\ \A j \in 1..(i - 1) : df.rows[j].Description # key

Descending(rows) ==
  \A i \in 1..(Len(rows) - 1) :
    rows[i].Transaction_count >= rows[i + 1].Transaction_count

\* C4 as stated: the trend rows are in descending Transaction_count, and
\* rows with equal counts are in the order their groups were first seen in
\* the input.
C4_FirstSeenTies ==
  (pc = "returned" /\ call.fn = "show_trends") =>
    /\ Descending(ret)
    /\ \A i, j \in 1..Len(ret) :
         (i < j /\ ret[i].Transaction_count = ret[j].Transaction_count) =>
           FirstSeen(call.transactions, ret[i].Description)
             < FirstSeen(call.transactions, ret[j].Description)

\* C4 amended: the trend rows are in descending Transaction_count (the
\* order among equal counts is left open).
C4_Descending ==
  (pc = "returned" /\ call.fn = "show_trends") => Descending(ret)

C4_Witness ==
  /\ pc = "returned"
  /\ call.fn = "show_trends"
  /\ Len(ret) >= 2
  /\ ret[1].Transaction_count > ret[2].Transaction_count
  /\ FirstSeen(call.transactions, ret[1].Description)
       > FirstSeen(call.transactions, ret[2].Description)

Abs(x) == IF x < 0 THEN 0 - x ELSE x

\* C10 as stated, "standard round-half rules" read as round half away from
\* zero: Amount_mean is Amount_sum / Transaction_count rounded to 2
\* decimals, a third decimal of exactly 5 rounding away from zero.
C10_MeanRoundHalfAway ==
  (pc = "returned" /\ call.fn = "show_trends") =>
    \A i \in 1..Len(ret) :
      LET n == ret[i].Transaction_count
          d == n * ret[i].Amount_mean - ret[i].Amount_sum
      IN /\ ret[i].Amount_mean % 10 = 0
         /\ Abs(d) <= 5 * n
         /\ (Abs(d) = 5 * n => Abs(n * ret[i].Amount_mean) > Abs(ret[i].Amount_sum))

\* C10 amended: Amount_mean is the multiple of 0.01 nearest to
\* Amount_sum / Transaction_count, and when the quotient lies exactly
\* halfway between two of them (third decimal exactly 5) it is the one
\* whose last digit is even.
C10_MeanRoundHalfEven ==
  (pc = "returned" /\ call.fn = "show_trends") =>
    \A i \in 1..Len(ret) :
      LET n == ret[i].Transaction_count
          d == n * ret[i].Amount_mean - ret[i].Amount_sum
      IN /\ ret[i].Amount_mean % 10 = 0
         /\ Abs(d) <= 5 * n
         /\ (Abs(d) = 5 * n => (ret[i].Amount_mean \div 10) % 2 = 0)
         /\ ret[i].Amount_sum =
              SumAmounts(GroupRows(call.transactions, ret[i].Description))

C10_Witness ==
  /\ pc = "returned"
  /\ call.fn = "show_trends"
  /\ \E i \in 1..Len(ret) :
       /\ ret[i].Amount_sum = 0 - 50
       /\ ret[i].Transaction_count = 2
       /\ ret[i].Amount_mean = 0 - 20

\* s contains sub as a contiguous run of characters.
ContainsLiteral(s, sub) ==
  \E i \in 1..(Len(s) + 1) :
    /\ i + Len(sub) - 1 <= Len(s)
    /\ SubSeq(s, i, i + Len(sub) - 1) = sub

QueryReported ==
  pc = "exit" /\ out = <<"filtered transactions", "Total Amount">>

\* C5: with a query given, the filtered table holds exactly the
\* preprocessed rows whose Description contains trim(lower(query)) as a
\* literal substring, ignoring case; a row with a null Description is left
\* out.
C5_LiteralFilter ==
  QueryReported =>
    LET q == strip(lower(argv.query))
        Matches(row) == /\ ~isnull(row.Description)
                        /\ ContainsLiteral(lower(row.Description), q)
    IN filtered.rows = SelectSeq(transactions.rows, Matches)

C5_Witness ==
  /\ QueryReported
  /\ argv.query = <<" ", "A", ".", "b">>
  /\ filtered.rows # <<>>
  /\ \E i \in 1..Len(transactions.rows) :
       /\ transactions.rows[i].Description = <<"a", "c", "b">>
       /\ transactions.rows[i] \notin Range(filtered.rows)

\* C6: with --days 0, a run on a non-empty input that ends without an
\* error has an empty trend result (no query: the trend path) or an empty
\* filtered result (a query: the query path), whatever the dates of the
\* rows.
C6_DaysZeroEmpty ==
  ( /\ pc = "exit"
    /\ argv.days = 0
    /\ argv.query = None \/ Truthy(argv.query)
    /\ csv.rows # <<>>
    /\ error = NoError ) =>
    (trends = <<>> /\ filtered.rows = <<>>)

ParseFailures == {"ValueError", "DateParseError", "AttributeError"}

IndexOf(q, x) == CHOOSE i \in 1..Len(q) : q[i] = x

C8_AnyQueryFilters ==
  (pc = "exit" /\ error = NoError /\ ~Installing /\ argv.query # None) =>
    out = <<"filtered transactions", "Total Amount">>

\* C8 amended: a run takes the filter path exactly when the query is a
\* non-empty string: it prints the filtered transactions and the total and
\* never aggregates trends or shows a chart.  With no query, or an empty
\* one, it takes the trend path, and charts are shown only with
\* --show-visualization, the bar chart before the heatmap.
C8_Paths ==
  /\ (pc = "exit" /\ error = NoError /\ ~Installing) =>
       IF argv.query # None /\ argv.query # <<>>
         THEN out = <<"filtered transactions", "Total Amount">> /\ trends = <<>>
         ELSE /\ filtered = EmptyFrame
              /\ out = <<"trends">> \o
                         (IF "--show-visualization" \in argv.flags
                            THEN <<"bar chart", "heatmap">> ELSE <<>>)
  /\ "bar chart" \in Range(out) =>
       /\ "--show-visualization" \in argv.flags
       /\ out[1] = "trends"
       /\ "filtered transactions" \notin Range(out)
  /\ "heatmap" \in Range(out) =>
       /\ "bar chart" \in Range(out)
       /\ IndexOf(out, "bar chart") < IndexOf(out, "heatmap")

C8_Witness ==
  /\ pc = "exit"
  /\ argv.query = <<>>
  /\ out = <<"trends", "bar chart", "heatmap">>
  /\ trends # <<>>

AmountUnparseable(row) ==
  ~isnull(row.Amount) /\ ~ParseFloat(RemoveCurrency(row.Amount)).ok

DateUnparseable(row) == row.Date # "NaN" /\ ~ToDatetime(row.Date).ok

AmountNegative(row) ==
  /\ ~isnull(row.Amount)
  /\ ParseFloat(RemoveCurrency(row.Amount)).ok
  /\ ParseFloat(RemoveCurrency(row.Amount)).value < 0

Preprocessed == pc \in {"report", "plot_total", "plot_heatmap", "exit"}
                /\ ~Installing /\ error # "UsageError"

\* C9 as stated: if any row of the input has an unparseable Amount or an
\* unparseable Date, the run aborts with an error and prints nothing.
C9_AnyBadRowAborts ==
  ( /\ Preprocessed
    /\ \E i \in 1..Len(csv.rows) :
         AmountUnparseable(csv.rows[i]) \/ DateUnparseable(csv.rows[i]) ) =>
    (error # NoError /\ out = <<>>)

\* C9 amended: a run that reaches preprocessing aborts with a parse error,
\* before any output, exactly when some row has a present Amount that is
\* not a number after '$' and ',' are stripped, or some row with a strictly
\* negative Amount has a present Date that cannot be parsed.  The Date of a
\* row whose Amount is not negative is never parsed, so an unparseable one
\* is tolerated there, and a missing Amount or Date raises no error.
C9_ParseErrors ==
  Preprocessed =>
    LET badAmount == \E i \in 1..Len(csv.rows) : AmountUnparseable(csv.rows[i])
        badDate   == \E i \in 1..Len(csv.rows) :
                       AmountNegative(csv.rows[i]) /\ DateUnparseable(csv.rows[i])
    IN /\ (badAmount \/ badDate) =>
            /\ pc = "exit"
            /\ error \in {"ValueError", "DateParseError"}
            /\ out = <<>>
       /\ ~(badAmount \/ badDate) => error \notin {"ValueError", "DateParseError"}

C9_Witness ==
  /\ pc = "exit"
  /\ error = NoError
  /\ out # <<>>
  /\ ~Installing
  /\ \E i \in 1..Len(csv.rows) : DateUnparseable(csv.rows[i])

====
